---- MODULE Spec2Model ----
(***************************************************************************)
(* Model of amethyst_core's Transform component                            *)
(* (src/amethyst_core/src/transform/components/transform.rs).              *)
(*                                                                         *)
(* Numbers.  The component is written against the scalar type Float.  The  *)
(* model computes with exact values of the field Q(sqrt 2), extended with  *)
(* the three non-finite IEEE values.  A scalar is a triple <<a, b, d>>     *)
(* standing for (a + b*sqrt(2)) / d, kept in lowest terms with d > 0;      *)
(* d = 0 encodes the non-finite values: <<1,0,0>> is +infinity, <<-1,0,0>> *)
(* is -infinity and <<0,0,0>> is NaN.  Q(sqrt 2) holds the sines and       *)
(* cosines of every multiple of 45 degrees, so quarter-turn rotations and  *)
(* their quaternions are exact.  Rounding and the sign of zero are not     *)
(* modelled.                                                               *)
(***************************************************************************)
EXTENDS Integers, Sequences, FiniteSets, TLC

VARIABLES
    tr,      \* the Transform being operated on (self)
    pre,     \* the caller's copy of tr taken before the last operation
    other,   \* the Transform argument of the last concat (the child)
    vec,     \* the vector argument of the last translation operation
    dist,    \* the distance argument of the last translation operation
    ang,     \* the angle argument of the last rotation, in quarter turns
    updir,   \* the up argument of the last face_towards
    out,     \* the Matrix4 returned by the last matrix() / view_matrix() call
    op,      \* name of the last operation applied
    steps,   \* number of operations applied so far
    limit,   \* number of operations the caller applies at most
    doc,     \* serialized value in flight between Serialize and Deserialize
    res      \* outcome of the last deserialization

vars == <<tr, pre, other, vec, dist, ang, updir, out, op, steps, limit, doc, res>>

-----------------------------------------------------------------------------
(* Scalar arithmetic (Float) *)

Abs(n) == IF n < 0 THEN -n ELSE n

RECURSIVE GCD(_, _)
GCD(m, n) == IF n = 0 THEN m ELSE GCD(n, m % n)

Sgn(n) == IF n > 0 THEN 1 ELSE IF n < 0 THEN -1 ELSE 0

\* sign of a + b*sqrt(2)
SgnQ(a, b) ==
    IF a >= 0 /\ b >= 0 THEN (IF a = 0 /\ b = 0 THEN 0 ELSE 1)
    ELSE IF a <= 0 /\ b <= 0 THEN -1
    ELSE IF a > 0 THEN Sgn(a * a - 2 * b * b)
    ELSE Sgn(2 * b * b - a * a)

Norm(a, b, d) ==
    IF d = 0 THEN <<SgnQ(a, b), 0, 0>>
    ELSE IF d = 1 THEN <<a, b, 1>>
    ELSE LET g == GCD(GCD(Abs(a), Abs(b)), d)
         IN  <<a \div g, b \div g, d \div g>>

Zero == <<0, 0, 1>>
One == <<1, 0, 1>>
NaN == <<0, 0, 0>>
PosInf == <<1, 0, 0>>
NegInf == <<-1, 0, 0>>

Int2F(n) == <<n, 0, 1>>
Rat(n, d) == Norm(n, 0, d)
\* n * sqrt(2) / d
Rt2(n, d) == Norm(0, n, d)

Float_is_finite(x) == x[3] # 0

FNeg(x) == <<-x[1], -x[2], x[3]>>

FAdd(x, y) ==
    IF x[3] = 0 /\ y[3] = 0 THEN (IF x = y THEN x ELSE NaN)
    ELSE IF x = Zero THEN y
    ELSE IF y = Zero THEN x
    ELSE Norm(x[1] * y[3] + y[1] * x[3], x[2] * y[3] + y[2] * x[3], x[3] * y[3])

FSub(x, y) == FAdd(x, FNeg(y))

FMul(x, y) ==
    IF x = One THEN y
    ELSE IF y = One THEN x
    ELSE Norm(x[1] * y[1] + 2 * x[2] * y[2], x[1] * y[2] + x[2] * y[1], x[3] * y[3])

\* 1 / x
FRecip(x) ==
    IF x = Zero THEN PosInf
    ELSE IF x[3] = 0 THEN (IF x = NaN THEN NaN ELSE Zero)
    ELSE LET n == x[1] * x[1] - 2 * x[2] * x[2]
             s == Sgn(n)
         IN  Norm(s * x[3] * x[1], -s * x[3] * x[2], Abs(n))

FDiv(x, y) == FMul(x, FRecip(y))

\* the whole number whose square is m
ISqrt(m) == CHOOSE k \in 0..m : k * k = m

IsSquare(m) == \E k \in 0..m : k * k = m

\* Square root, for the scalars whose root lies in Q(sqrt 2): a rational n / d
\* with n * d a square or twice a square.  Any other argument is an evaluation
\* error, so no input of the model may lead to one.
FSqrt(x) ==
    IF x[3] = 0 THEN (IF x = PosInf THEN PosInf ELSE NaN)
    ELSE IF x[2] = 0 /\ x[1] < 0 THEN NaN
    ELSE LET m == IF x[2] = 0 THEN x[1] * x[3] ELSE -1
         IN  IF IsSquare(m) THEN Norm(ISqrt(m), 0, x[3])
             ELSE IF m % 2 = 0 THEN Norm(0, ISqrt(m \div 2), x[3])
             ELSE Norm(ISqrt(-1), 0, 1)

\* IEEE comparison: NaN equals nothing
FEq(x, y) == x # NaN /\ y # NaN /\ x = y

-----------------------------------------------------------------------------
(* nalgebra values used by the component: Vector3, Quaternion, Matrix4 *)

\* Vector3 is <<x, y, z>>
Vector3_new(x, y, z) == <<x, y, z>>
Vec(a, b, c) == <<Int2F(a), Int2F(b), Int2F(c)>>

VAdd(a, b) == <<FAdd(a[1], b[1]), FAdd(a[2], b[2]), FAdd(a[3], b[3])>>
VNeg(a) == <<FNeg(a[1]), FNeg(a[2]), FNeg(a[3])>>
VScale(a, s) == <<FMul(a[1], s), FMul(a[2], s), FMul(a[3], s)>>
component_mul(a, b) == <<FMul(a[1], b[1]), FMul(a[2], b[2]), FMul(a[3], b[3])>>
cross(a, b) ==
    << FSub(FMul(a[2], b[3]), FMul(a[3], b[2])),
       FSub(FMul(a[3], b[1]), FMul(a[1], b[3])),
       FSub(FMul(a[1], b[2]), FMul(a[2], b[1])) >>

\* Quaternion::new takes the scalar part first; the coords vector of a
\* quaternion holds it last: (i, j, k, w).
Quaternion_new(w, i, j, k) == [w |-> w, i |-> i, j |-> j, k |-> k]
QI(q) == q.i
QJ(q) == q.j
QK(q) == q.k
QW(q) == q.w
QVector(q) == <<q.i, q.j, q.k>>
coords(q) == <<q.i, q.j, q.k, q.w>>

Sum4(a, b, c, d) == FAdd(FAdd(FAdd(a, b), c), d)

\* Hamilton product
QMul(a, b) ==
    Quaternion_new(
        Sum4(FMul(QW(a), QW(b)), FNeg(FMul(QI(a), QI(b))),
             FNeg(FMul(QJ(a), QJ(b))), FNeg(FMul(QK(a), QK(b)))),
        Sum4(FMul(QW(a), QI(b)), FMul(QI(a), QW(b)),
             FMul(QJ(a), QK(b)), FNeg(FMul(QK(a), QJ(b)))),
        Sum4(FMul(QW(a), QJ(b)), FNeg(FMul(QI(a), QK(b))),
             FMul(QJ(a), QW(b)), FMul(QK(a), QI(b))),
        Sum4(FMul(QW(a), QK(b)), FMul(QI(a), QJ(b)),
             FNeg(FMul(QJ(a), QI(b))), FMul(QK(a), QW(b))))

QConj(q) == Quaternion_new(QW(q), FNeg(QI(q)), FNeg(QJ(q)), FNeg(QK(q)))

QNormSquared(q) ==
    Sum4(FMul(q.i, q.i), FMul(q.j, q.j), FMul(q.k, q.k), FMul(q.w, q.w))

\* UnitQuaternion * Vector3: t = 2 (qv x v); t * w + qv x t + v
QRotate(q, v) ==
    LET t == VScale(cross(QVector(q), v), Int2F(2))
    IN  VAdd(VAdd(VScale(t, QW(q)), cross(QVector(q), t)), v)

QIdentity == Quaternion_new(One, Zero, Zero, Zero)

\* Matrix4 is a tuple of four rows, each a tuple of four scalars.
Matrix4_identity ==
    << <<One, Zero, Zero, Zero>>, <<Zero, One, Zero, Zero>>,
       <<Zero, Zero, One, Zero>>, <<Zero, Zero, Zero, One>> >>

MatMul(a, b) ==
    [r \in 1..4 |-> [c \in 1..4 |->
        Sum4(FMul(a[r][1], b[1][c]), FMul(a[r][2], b[2][c]),
             FMul(a[r][3], b[3][c]), FMul(a[r][4], b[4][c]))]]

\* self * diag(scaling, 1): columns 1..3 are scaled
prepend_nonuniform_scaling(m, scaling) ==
    [r \in 1..4 |-> [c \in 1..4 |->
        IF c <= 3 THEN FMul(m[r][c], scaling[c]) ELSE m[r][c]]]

\* diag(scaling, 1) * self: rows 1..3 are scaled
append_nonuniform_scaling(m, scaling) ==
    [r \in 1..4 |-> [c \in 1..4 |->
        IF r <= 3 THEN FMul(m[r][c], scaling[r]) ELSE m[r][c]]]

\* UnitQuaternion::to_rotation_matrix, as rows of a 3x3 matrix
to_rotation_matrix(q) ==
    LET i == QI(q)   j == QJ(q)   k == QK(q)   w == QW(q)
        two == Int2F(2)
        ww == FMul(w, w)   ii == FMul(i, i)   jj == FMul(j, j)   kk == FMul(k, k)
        ij == FMul(FMul(i, j), two)   wk == FMul(FMul(w, k), two)
        wj == FMul(FMul(w, j), two)   ik == FMul(FMul(i, k), two)
        jk == FMul(FMul(j, k), two)   wi == FMul(FMul(w, i), two)
    IN  << << FSub(FSub(FAdd(ww, ii), jj), kk), FSub(ij, wk), FAdd(wj, ik) >>,
           << FAdd(wk, ij), FSub(FAdd(FSub(ww, ii), jj), kk), FSub(jk, wi) >>,
           << FSub(ik, wj), FAdd(wi, jk), FAdd(FSub(FSub(ww, ii), jj), kk) >> >>

\* Isometry3 is [rotation, translation]
Isometry3_from_parts(translation, rotation) ==
    [rotation |-> rotation, translation |-> translation]

Isometry3_identity == Isometry3_from_parts(Vec(0, 0, 0), QIdentity)

Isometry3_to_homogeneous(iso) ==
    LET rot == to_rotation_matrix(iso.rotation)
    IN  [r \in 1..4 |-> [c \in 1..4 |->
            IF r <= 3 /\ c <= 3 THEN rot[r][c]
            ELSE IF r <= 3 THEN iso.translation[r]
            ELSE IF c <= 3 THEN Zero ELSE One]]

\* rotation^-1 (the conjugate), then translation := rotation^-1 * (-translation)
Isometry3_inverse(iso) ==
    LET rinv == QConj(iso.rotation)
    IN  Isometry3_from_parts(QRotate(rinv, VNeg(iso.translation)), rinv)

\* sin and cos of k * 45 degrees
Sin45(k) ==
    LET m == k % 8
    IN  IF m = 0 \/ m = 4 THEN Zero
        ELSE IF m = 2 THEN One
        ELSE IF m = 6 THEN Int2F(-1)
        ELSE IF m = 1 \/ m = 3 THEN Rt2(1, 2)
        ELSE Rt2(-1, 2)

Cos45(k) == Sin45(k + 2)

\* from_axis_angle taking the sine of the whole angle
from_axis_angle_whole(axis, angle) ==
    LET sang == Sin45(2 * angle)
        cang == Cos45(angle)
        v == VScale(axis, sang)
    IN  Quaternion_new(cang, v[1], v[2], v[3])

\* Angles are counted in quarter turns (90 degrees), so angle / 2 is a multiple
\* of 45 degrees.  UnitQuaternion::from_axis_angle: (axis * sin(angle / 2), cos(angle / 2))
from_axis_angle(axis, angle) ==
    LET sang == Sin45(angle)
        cang == Cos45(angle)
        v == VScale(axis, sang)
    IN  Quaternion_new(cang, v[1], v[2], v[3])

x_axis == Vec(1, 0, 0)
y_axis == Vec(0, 1, 0)
z_axis == Vec(0, 0, 1)

-----------------------------------------------------------------------------
(* Transform *)

\* Transform::new
Transform_new(position, rotation, scale) ==
    [ isometry |-> Isometry3_from_parts(position, rotation),
      scale |-> scale,
      global_matrix |-> Matrix4_identity ]

\* impl Default for Transform
Transform_default ==
    [ isometry |-> Isometry3_identity,
      scale |-> <<One, One, One>>,
      global_matrix |-> Matrix4_identity ]

\* Transform::matrix
matrix(self) ==
    prepend_nonuniform_scaling(Isometry3_to_homogeneous(self.isometry), self.scale)

\* view_matrix scaling the columns instead of the rows
view_matrix_columns(self) ==
    LET inv_scale == Vector3_new(FDiv(One, self.scale[1]),
                                 FDiv(One, self.scale[2]),
                                 FDiv(One, self.scale[3]))
    IN  prepend_nonuniform_scaling(
            Isometry3_to_homogeneous(Isometry3_inverse(self.isometry)), inv_scale)

\* Transform::view_matrix
view_matrix(self) ==
    LET inv_scale == Vector3_new(FDiv(One, self.scale[1]),
                                 FDiv(One, self.scale[2]),
                                 FDiv(One, self.scale[3]))
    IN  append_nonuniform_scaling(
            Isometry3_to_homogeneous(Isometry3_inverse(self.isometry)), inv_scale)

\* is_finite scanning the local inverse instead of the cached world matrix
is_finite_local(self) ==
    \A r \in 1..4 : \A c \in 1..4 : Float_is_finite(view_matrix(self)[r][c])

\* is_finite rejecting NaN only, as its doc comment words it
is_finite_nan_only(self) ==
    \A r \in 1..4 : \A c \in 1..4 : self.global_matrix[r][c] # NaN

\* Transform::is_finite
is_finite(self) ==
    \A r \in 1..4 : \A c \in 1..4 : Float_is_finite(self.global_matrix[r][c])

\* concat adding the child's translation without the parent's scale
concat_unscaled(self, o) ==
    LET translation ==
            VAdd(self.isometry.translation,
                 QRotate(self.isometry.rotation, o.isometry.translation))
        scale == component_mul(self.scale, o.scale)
        rotation == QMul(self.isometry.rotation, o.isometry.rotation)
    IN  [self EXCEPT !.isometry = Isometry3_from_parts(translation, rotation),
                     !.scale = scale]

\* concat multiplying the rotations in the other order
concat_swapped(self, o) ==
    LET translation ==
            VAdd(self.isometry.translation,
                 QRotate(self.isometry.rotation,
                         component_mul(o.isometry.translation, self.scale)))
        scale == component_mul(self.scale, o.scale)
        rotation == QMul(o.isometry.rotation, self.isometry.rotation)
    IN  [self EXCEPT !.isometry = Isometry3_from_parts(translation, rotation),
                     !.scale = scale]

\* concat updating the rotation before it computes the translation
concat_rotation_first(self, o) ==
    LET rotation == QMul(self.isometry.rotation, o.isometry.rotation)
        translation ==
            VAdd(self.isometry.translation,
                 QRotate(rotation,
                         component_mul(o.isometry.translation, self.scale)))
        scale == component_mul(self.scale, o.scale)
    IN  [self EXCEPT !.isometry = Isometry3_from_parts(translation, rotation),
                     !.scale = scale]

\* concat refreshing the cached world matrix from the new local fields
concat_refreshing(self, o) ==
    LET translation ==
            VAdd(self.isometry.translation,
                 QRotate(self.isometry.rotation,
                         component_mul(o.isometry.translation, self.scale)))
        scale == component_mul(self.scale, o.scale)
        rotation == QMul(self.isometry.rotation, o.isometry.rotation)
        new == [self EXCEPT !.isometry = Isometry3_from_parts(translation, rotation),
                            !.scale = scale]
    IN  [new EXCEPT !.global_matrix = matrix(new)]

\* Transform::concat
concat(self, o) ==
    LET translation ==
            VAdd(self.isometry.translation,
                 QRotate(self.isometry.rotation,
                         component_mul(o.isometry.translation, self.scale)))
        scale == component_mul(self.scale, o.scale)
        rotation == QMul(self.isometry.rotation, o.isometry.rotation)
    IN  [self EXCEPT !.isometry = Isometry3_from_parts(translation, rotation),
                     !.scale = scale]

\* Transform::prepend_translation
prepend_translation(self, translation) ==
    [self EXCEPT !.isometry.translation = VAdd(@, translation)]

\* Transform::append_translation
append_translation(self, translation) ==
    [self EXCEPT !.isometry.translation =
        VAdd(@, QRotate(self.isometry.rotation, translation))]

\* Transform::prepend_translation_along
prepend_translation_along(self, direction, distance) ==
    [self EXCEPT !.isometry.translation = VAdd(@, VScale(direction, distance))]

\* append_translation_along without the rotation
append_translation_along_unrotated(self, direction, distance) ==
    [self EXCEPT !.isometry.translation = VAdd(@, VScale(direction, distance))]

\* Transform::append_translation_along
append_translation_along(self, direction, distance) ==
    [self EXCEPT !.isometry.translation =
        VAdd(@, VScale(QRotate(self.isometry.rotation, direction), distance))]

\* prepend_rotation multiplying on the right, as append_rotation does
prepend_rotation_right(self, axis, a) ==
    [self EXCEPT !.isometry.rotation = QMul(@, from_axis_angle(axis, a))]

\* Transform::prepend_rotation
prepend_rotation(self, axis, a) ==
    LET q == from_axis_angle(axis, a)
    IN  [self EXCEPT !.isometry.rotation = QMul(q, @)]

\* Transform::append_rotation
append_rotation(self, axis, a) ==
    [self EXCEPT !.isometry.rotation = QMul(@, from_axis_angle(axis, a))]

\* UnitQuaternion::from_euler_angles(roll, pitch, yaw), angles in quarter turns
from_euler_angles(roll, pitch, yaw) ==
    LET sr == Sin45(roll)    cr == Cos45(roll)
        sp == Sin45(pitch)   cp == Cos45(pitch)
        sy == Sin45(yaw)     cy == Cos45(yaw)
    IN  Quaternion_new(
            FAdd(FMul(FMul(cr, cp), cy), FMul(FMul(sr, sp), sy)),
            FSub(FMul(FMul(sr, cp), cy), FMul(FMul(cr, sp), sy)),
            FAdd(FMul(FMul(cr, sp), cy), FMul(FMul(sr, cp), sy)),
            FSub(FMul(FMul(cr, cp), sy), FMul(FMul(sr, sp), cy)))

\* Transform::set_rotation
set_rotation(self, rotation) == [self EXCEPT !.isometry.rotation = rotation]

\* Transform::set_rotation_euler
set_rotation_euler(self, x, y, z) ==
    [self EXCEPT !.isometry.rotation = from_euler_angles(x, y, z)]

\* Transform::prepend_rotation_x_axis
prepend_rotation_x_axis(self, delta_angle) ==
    prepend_rotation(self, x_axis, delta_angle)

\* Transform::append_rotation_x_axis
append_rotation_x_axis(self, delta_angle) ==
    append_rotation(self, x_axis, delta_angle)

\* Transform::set_rotation_x_axis
set_rotation_x_axis(self, a) == set_rotation_euler(self, a, 0, 0)

\* Transform::prepend_rotation_y_axis
prepend_rotation_y_axis(self, delta_angle) ==
    prepend_rotation(self, y_axis, delta_angle)

\* Transform::append_rotation_y_axis
append_rotation_y_axis(self, delta_angle) ==
    append_rotation(self, y_axis, delta_angle)

\* Transform::set_rotation_y_axis
set_rotation_y_axis(self, a) == set_rotation_euler(self, 0, a, 0)

\* Transform::prepend_rotation_z_axis
prepend_rotation_z_axis(self, delta_angle) ==
    prepend_rotation(self, VNeg(z_axis), delta_angle)

\* Transform::append_rotation_z_axis
append_rotation_z_axis(self, delta_angle) ==
    append_rotation(self, VNeg(z_axis), delta_angle)

\* Transform::set_rotation_z_axis
set_rotation_z_axis(self, a) == set_rotation_euler(self, 0, 0, a)

\* Transform::rotate_2d
rotate_2d(self, delta_angle) == prepend_rotation_z_axis(self, delta_angle)

\* Transform::set_rotation_2d
set_rotation_2d(self, a) == set_rotation_euler(self, 0, 0, a)

\* IEEE comparison x > y: false when either side is NaN
FGt(x, y) ==
    /\ x # NaN
    /\ y # NaN
    /\ LET diff == FSub(x, y)
       IN  diff # NaN /\ SgnQ(diff[1], diff[2]) > 0

\* Vector3::norm and Vector3::normalize
norm(v) == FSqrt(FAdd(FAdd(FMul(v[1], v[1]), FMul(v[2], v[2])), FMul(v[3], v[3])))
normalize(v) ==
    LET n == norm(v)
    IN  <<FDiv(v[1], n), FDiv(v[2], n), FDiv(v[3], n)>>

\* Rotation3::face_towards: the matrix whose columns are the x, y and z axes
\* of the observer frame
Rotation3_face_towards(dir, up) ==
    LET zaxis == normalize(dir)
        xaxis == normalize(cross(up, zaxis))
        yaxis == normalize(cross(zaxis, xaxis))
    IN  << <<xaxis[1], yaxis[1], zaxis[1]>>,
           <<xaxis[2], yaxis[2], zaxis[2]>>,
           <<xaxis[3], yaxis[3], zaxis[3]>> >>

\* UnitQuaternion::from_rotation_matrix; m[r][c] is the source's rotmat[(r-1, c-1)]
from_rotation_matrix(m) ==
    LET trace == FAdd(FAdd(m[1][1], m[2][2]), m[3][3])
        two == Int2F(2)
        quarter == Rat(1, 4)
    IN  IF FGt(trace, Zero) THEN
            LET denom == FMul(FSqrt(FAdd(trace, One)), two)
            IN  Quaternion_new(FMul(quarter, denom),
                               FDiv(FSub(m[3][2], m[2][3]), denom),
                               FDiv(FSub(m[1][3], m[3][1]), denom),
                               FDiv(FSub(m[2][1], m[1][2]), denom))
        ELSE IF FGt(m[1][1], m[2][2]) /\ FGt(m[1][1], m[3][3]) THEN
            LET denom == FMul(FSqrt(FSub(FSub(FAdd(One, m[1][1]), m[2][2]), m[3][3])), two)
            IN  Quaternion_new(FDiv(FSub(m[3][2], m[2][3]), denom),
                               FMul(quarter, denom),
                               FDiv(FAdd(m[1][2], m[2][1]), denom),
                               FDiv(FAdd(m[1][3], m[3][1]), denom))
        ELSE IF FGt(m[2][2], m[3][3]) THEN
            LET denom == FMul(FSqrt(FSub(FSub(FAdd(One, m[2][2]), m[1][1]), m[3][3])), two)
            IN  Quaternion_new(FDiv(FSub(m[1][3], m[3][1]), denom),
                               FDiv(FAdd(m[1][2], m[2][1]), denom),
                               FMul(quarter, denom),
                               FDiv(FAdd(m[2][3], m[3][2]), denom))
        ELSE
            LET denom == FMul(FSqrt(FSub(FSub(FAdd(One, m[3][3]), m[1][1]), m[2][2])), two)
            IN  Quaternion_new(FDiv(FSub(m[2][1], m[1][2]), denom),
                               FDiv(FAdd(m[1][3], m[3][1]), denom),
                               FDiv(FAdd(m[2][3], m[3][2]), denom),
                               FMul(quarter, denom))

\* UnitQuaternion::face_towards
UnitQuaternion_face_towards(dir, up) ==
    from_rotation_matrix(Rotation3_face_towards(dir, up))

\* Transform::face_towards
face_towards(self, target, up) ==
    [self EXCEPT !.isometry.rotation =
        UnitQuaternion_face_towards(
            VAdd(self.isometry.translation, VNeg(target)), up)]

\* Transform::move_forward and its five siblings
move_forward(self, amount) ==
    append_translation(self, Vector3_new(Zero, Zero, FNeg(amount)))
move_backward(self, amount) ==
    append_translation(self, Vector3_new(Zero, Zero, amount))
move_right(self, amount) ==
    append_translation(self, Vector3_new(amount, Zero, Zero))
move_left(self, amount) ==
    append_translation(self, Vector3_new(FNeg(amount), Zero, Zero))
move_up(self, amount) ==
    append_translation(self, Vector3_new(Zero, amount, Zero))
move_down(self, amount) ==
    append_translation(self, Vector3_new(Zero, FNeg(amount), Zero))

\* Transform::prepend_translation_x / _y / _z
prepend_translation_x(self, amount) ==
    [self EXCEPT !.isometry.translation[1] = FAdd(@, amount)]
prepend_translation_y(self, amount) ==
    [self EXCEPT !.isometry.translation[2] = FAdd(@, amount)]
prepend_translation_z(self, amount) ==
    [self EXCEPT !.isometry.translation[3] = FAdd(@, amount)]

\* Transform::set_translation_x / _y / _z
set_translation_x(self, value) ==
    [self EXCEPT !.isometry.translation[1] = value]
set_translation_y(self, value) ==
    [self EXCEPT !.isometry.translation[2] = value]
set_translation_z(self, value) ==
    [self EXCEPT !.isometry.translation[3] = value]

\* Transform::set_translation
set_translation(self, position) ==
    [self EXCEPT !.isometry.translation = position]

\* Transform::append_translation_xyz
append_translation_xyz(self, x, y, z) ==
    append_translation(self, Vector3_new(x, y, z))

\* Transform::set_translation_xyz
set_translation_xyz(self, x, y, z) ==
    set_translation(self, Vector3_new(x, y, z))

\* the derived setter Transform::set_scale
set_scale(self, val) == [self EXCEPT !.scale = val]

-----------------------------------------------------------------------------
(* Serialization *)

\* Unit::new_unchecked: the quaternion taken as it is
Unit_new_unchecked(q) == q

\* Unit::new_normalize: every component divided by the norm
Unit_new_normalize(q) ==
    LET n == FSqrt(QNormSquared(q))
    IN  Quaternion_new(FDiv(q.w, n), FDiv(q.i, n), FDiv(q.j, n), FDiv(q.k, n))

\* A serialized struct is a sequence of fields [key, value]; a mapping format
\* hands the visitor the keys, a positional format only the values in order.
Field(key, value) == [key |-> key, value |-> value]

\* impl Serialize for Transform
Serialize(self) ==
    LET pos == self.isometry.translation
        rot == coords(self.isometry.rotation)
        scale == self.scale
    IN  << Field("translation", <<pos[1], pos[2], pos[3]>>),
           Field("rotation", <<rot[1], rot[2], rot[3], rot[4]>>),
           Field("scale", <<scale[1], scale[2], scale[3]>>) >>

Ok(value) == [kind |-> "ok", value |-> value]
invalid_length(n) == [kind |-> "err", error |-> "invalid_length", field |-> "", len |-> n]
duplicate_field(name) == [kind |-> "err", error |-> "duplicate_field", field |-> name, len |-> 0]
\* the error of next_element()? / next_value()? on a value that is no array of
\* the expected length
invalid_element(n) == [kind |-> "err", error |-> "invalid_element", field |-> "", len |-> n]

\* visit_seq reading the rotation as (w, x, y, z)
visit_seq_wxyz(seq) ==
    IF Len(seq) < 1 THEN invalid_length(0)
    ELSE IF Len(seq[1].value) # 3 THEN invalid_element(0)
    ELSE IF Len(seq) < 2 THEN invalid_length(1)
    ELSE IF Len(seq[2].value) # 4 THEN invalid_element(1)
    ELSE IF Len(seq) < 3 THEN invalid_length(2)
    ELSE IF Len(seq[3].value) # 3 THEN invalid_element(2)
    ELSE LET translation == seq[1].value
             rotation == seq[2].value
             scale == seq[3].value
             isometry ==
                Isometry3_from_parts(
                    <<translation[1], translation[2], translation[3]>>,
                    Unit_new_normalize(Quaternion_new(
                        rotation[1], rotation[2], rotation[3], rotation[4])))
         IN  Ok([Transform_default EXCEPT
                    !.isometry = isometry,
                    !.scale = Vector3_new(scale[1], scale[2], scale[3])])

\* visit_seq filling the cached world matrix from the fields it read
visit_seq_cached(seq) ==
    IF Len(seq) < 1 THEN invalid_length(0)
    ELSE IF Len(seq[1].value) # 3 THEN invalid_element(0)
    ELSE IF Len(seq) < 2 THEN invalid_length(1)
    ELSE IF Len(seq[2].value) # 4 THEN invalid_element(1)
    ELSE IF Len(seq) < 3 THEN invalid_length(2)
    ELSE IF Len(seq[3].value) # 3 THEN invalid_element(2)
    ELSE LET translation == seq[1].value
             rotation == seq[2].value
             scale == seq[3].value
             isometry ==
                Isometry3_from_parts(
                    <<translation[1], translation[2], translation[3]>>,
                    Unit_new_normalize(Quaternion_new(
                        rotation[4], rotation[1], rotation[2], rotation[3])))
             value == [Transform_default EXCEPT
                        !.isometry = isometry,
                        !.scale = Vector3_new(scale[1], scale[2], scale[3])]
         IN  Ok([value EXCEPT !.global_matrix = matrix(value)])

\* TransformVisitor::visit_seq
visit_seq(seq) ==
    IF Len(seq) < 1 THEN invalid_length(0)
    ELSE IF Len(seq[1].value) # 3 THEN invalid_element(0)
    ELSE IF Len(seq) < 2 THEN invalid_length(1)
    ELSE IF Len(seq[2].value) # 4 THEN invalid_element(1)
    ELSE IF Len(seq) < 3 THEN invalid_length(2)
    ELSE IF Len(seq[3].value) # 3 THEN invalid_element(2)
    ELSE LET translation == seq[1].value
             rotation == seq[2].value
             scale == seq[3].value
             isometry ==
                Isometry3_from_parts(
                    <<translation[1], translation[2], translation[3]>>,
                    Unit_new_normalize(Quaternion_new(
                        rotation[4], rotation[1], rotation[2], rotation[3])))
         IN  Ok([Transform_default EXCEPT
                    !.isometry = isometry,
                    !.scale = Vector3_new(scale[1], scale[2], scale[3])])

\* Option values
None == <<>>
Some(v) == <<v>>
is_some(o) == o # None
unwrap_or(o, d) == IF o = None THEN d ELSE o[1]

\* the same loop without the duplicate checks: the last value wins
RECURSIVE visit_map_loop_last_wins(_, _, _, _, _)
visit_map_loop_last_wins(map, n, translation, rotation, scale) ==
    IF n > Len(map)
    THEN [kind |-> "done", translation |-> translation, rotation |-> rotation,
          scale |-> scale]
    ELSE IF map[n].key = "translation"
    THEN visit_map_loop_last_wins(map, n + 1, Some(map[n].value), rotation, scale)
    ELSE IF map[n].key = "rotation"
    THEN visit_map_loop_last_wins(map, n + 1, translation, Some(map[n].value), scale)
    ELSE visit_map_loop_last_wins(map, n + 1, translation, rotation, Some(map[n].value))

\* visit_map keeping the last value of a repeated field
visit_map_last_wins(map) ==
    LET fields == visit_map_loop_last_wins(map, 1, None, None, None)
        translation == unwrap_or(fields.translation, <<Zero, Zero, Zero>>)
        rotation == unwrap_or(fields.rotation, <<One, Zero, Zero, Zero>>)
        scale == unwrap_or(fields.scale, <<One, One, One>>)
        isometry ==
            Isometry3_from_parts(
                <<translation[1], translation[2], translation[3]>>,
                Unit_new_normalize(Quaternion_new(
                    rotation[4], rotation[1], rotation[2], rotation[3])))
    IN  Ok([Transform_default EXCEPT
                !.isometry = isometry,
                !.scale = Vector3_new(scale[1], scale[2], scale[3])])

\* the `while let Some(key) = map.next_key()?` loop of visit_map, from entry n
RECURSIVE visit_map_loop(_, _, _, _, _)
visit_map_loop(map, n, translation, rotation, scale) ==
    IF n > Len(map)
    THEN [kind |-> "done", translation |-> translation, rotation |-> rotation,
          scale |-> scale]
    ELSE IF map[n].key = "translation"
    THEN IF is_some(translation) THEN duplicate_field("translation")
         ELSE visit_map_loop(map, n + 1, Some(map[n].value), rotation, scale)
    ELSE IF map[n].key = "rotation"
    THEN IF is_some(rotation) THEN duplicate_field("rotation")
         ELSE visit_map_loop(map, n + 1, translation, Some(map[n].value), scale)
    ELSE IF is_some(scale) THEN duplicate_field("scale")
         ELSE visit_map_loop(map, n + 1, translation, rotation, Some(map[n].value))

\* TransformVisitor::visit_map
visit_map(map) ==
    LET fields == visit_map_loop(map, 1, None, None, None)
    IN  IF fields.kind = "err" THEN fields
        ELSE LET translation == unwrap_or(fields.translation, <<Zero, Zero, Zero>>)
                 rotation == unwrap_or(fields.rotation, <<One, Zero, Zero, Zero>>)
                 scale == unwrap_or(fields.scale, <<One, One, One>>)
                 isometry ==
                    Isometry3_from_parts(
                        <<translation[1], translation[2], translation[3]>>,
                        Unit_new_normalize(Quaternion_new(
                            rotation[4], rotation[1], rotation[2], rotation[3])))
             IN  Ok([Transform_default EXCEPT
                        !.isometry = isometry,
                        !.scale = Vector3_new(scale[1], scale[2], scale[3])])

-----------------------------------------------------------------------------
(* Inputs the callers supply *)

\* longest sequence of operations applied to one transform
MaxSteps == 2

\* a quarter turn about the y axis, and a third of a turn about (1, 1, 1)
RotY90 == from_axis_angle(y_axis, 1)
RotDiag120 == Quaternion_new(Rat(1, 2), Rat(1, 2), Rat(1, 2), Rat(1, 2))

Rotations == {QIdentity, RotY90, RotDiag120}
Scales == {Vec(1, 1, 1), Vec(2, 2, 2), Vec(2, -1, 3), Vec(1, 0, 2)}

\* transforms the callers construct
Constructed ==
    {Transform_default} \cup
    {Transform_new(Vec(1, -2, 3), r, s) : r \in Rotations, s \in Scales}

\* child transforms handed to concat
Others ==
    { Transform_default,
      Transform_new(Vec(1, -2, 3), RotY90, Vec(2, 2, 2)),
      Transform_new(Vec(0, 1, 0), RotDiag120, Vec(2, -1, 3)) }

Vectors == {Vec(1, 2, 3)}
Directions == {Vec(0, 0, -1)}
Distances == {One, Int2F(2)}

\* world matrices of a parent node
ParentWorlds ==
    { Matrix4_identity,
      matrix(Transform_new(Vec(1, -2, 3), RotY90, Vec(2, 2, 2))) }

\* most fields of a serialized value read from outside
MaxFields == 3

\* fields a serialized value may hold; the rotations have norm 2, 5, 0 and 5
InputFields ==
    { Field("translation", Vec(1, -2, 3)),
      Field("rotation", <<Zero, Zero, Zero, Int2F(2)>>),
      Field("rotation", <<Int2F(3), Zero, Zero, Int2F(4)>>),
      Field("rotation", <<Zero, Zero, Zero, Zero>>),
      Field("rotation", <<Int2F(1), Int2F(2), Int2F(2), Int2F(4)>>),
      Field("scale", Vec(2, -1, 3)) }

\* serialized values handed to the deserializer by a scene or config file
InputDocs == UNION {[1..n -> InputFields] : n \in 0..MaxFields}

NoMatrix == <<>>
NoVector == Vec(0, 0, 0)

-----------------------------------------------------------------------------
(* Operations on one transform *)

Init ==
    /\ tr \in Constructed
    /\ pre = tr
    /\ other = Transform_default
    /\ vec = NoVector
    /\ dist = One
    /\ ang = 0
    /\ updir = NoVector
    /\ out = NoMatrix
    /\ op = "new"
    /\ steps = 0
    /\ limit = MaxSteps
    /\ doc = <<>>
    /\ res = [kind |-> "none"]

\* a mutating call: the caller keeps the value before the call in pre
Mutate(name, new, o, v, d) ==
    /\ steps < limit
    /\ tr' = new
    /\ pre' = tr
    /\ other' = o
    /\ vec' = v
    /\ dist' = d
    /\ ang' = 0
    /\ updir' = NoVector
    /\ out' = NoMatrix
    /\ op' = name
    /\ steps' = steps + 1
    /\ UNCHANGED <<doc, res, limit>>

Concat ==
    \E o \in Others : Mutate("concat", concat(tr, o), o, NoVector, One)

PrependTranslation ==
    \E v \in Vectors :
        Mutate("prepend_translation", prepend_translation(tr, v),
               Transform_default, v, One)

AppendTranslation ==
    \E v \in Vectors :
        Mutate("append_translation", append_translation(tr, v),
               Transform_default, v, One)

PrependTranslationAlong ==
    \E v \in Directions, d \in Distances :
        Mutate("prepend_translation_along", prepend_translation_along(tr, v, d),
               Transform_default, v, d)

AppendTranslationAlong ==
    \E v \in Directions, d \in Distances :
        Mutate("append_translation_along", append_translation_along(tr, v, d),
               Transform_default, v, d)

\* a call that only reads the transform
Observe(name, result) ==
    /\ out' = result
    /\ op' = name
    /\ UNCHANGED <<tr, pre, other, vec, dist, ang, updir, steps, doc, res, limit>>

MatrixCall == Observe("matrix", matrix(tr))

ViewMatrixCall == Observe("view_matrix", view_matrix(tr))

\* The hierarchy pass of the transform system writes the cached world matrix:
\* the parent's world matrix times the node's local matrix.
HierarchyPass ==
    \E w \in ParentWorlds :
        Mutate("hierarchy",
               [tr EXCEPT !.global_matrix = MatMul(w, matrix(tr))],
               Transform_default, NoVector, One)

Next ==
    \/ Concat
    \/ PrependTranslation
    \/ AppendTranslation
    \/ PrependTranslationAlong
    \/ AppendTranslationAlong
    \/ MatrixCall
    \/ ViewMatrixCall
    \/ HierarchyPass

Spec == Init /\ [][Next]_vars

-----------------------------------------------------------------------------
(* The remaining setters and movers of one transform *)

Amounts == {One}
Positions == {Vec(0, 4, -1)}
EulerAngles == {<<1, 1, 0>>, <<2, 0, 1>>}

\* face_towards is called with a target at one of these offsets from the
\* transform's position, so that the direction's length lies in Q(sqrt 2)
LookOffsets == {Vec(0, -1, 0), Vec(0, 0, 2), Vec(0, 0, 0)}
Ups == {Vec(0, 0, 1), Vec(0, 1, 0)}

MoveForward ==
    \E a \in Amounts : Mutate("move_forward", move_forward(tr, a),
                              Transform_default, NoVector, a)
MoveBackward ==
    \E a \in Amounts : Mutate("move_backward", move_backward(tr, a),
                              Transform_default, NoVector, a)
MoveRight ==
    \E a \in Amounts : Mutate("move_right", move_right(tr, a),
                              Transform_default, NoVector, a)
MoveLeft ==
    \E a \in Amounts : Mutate("move_left", move_left(tr, a),
                              Transform_default, NoVector, a)
MoveUp ==
    \E a \in Amounts : Mutate("move_up", move_up(tr, a),
                              Transform_default, NoVector, a)
MoveDown ==
    \E a \in Amounts : Mutate("move_down", move_down(tr, a),
                              Transform_default, NoVector, a)

PrependTranslationX ==
    \E a \in Amounts : Mutate("prepend_translation_x", prepend_translation_x(tr, a),
                              Transform_default, NoVector, a)
PrependTranslationY ==
    \E a \in Amounts : Mutate("prepend_translation_y", prepend_translation_y(tr, a),
                              Transform_default, NoVector, a)
PrependTranslationZ ==
    \E a \in Amounts : Mutate("prepend_translation_z", prepend_translation_z(tr, a),
                              Transform_default, NoVector, a)

SetTranslationX ==
    \E a \in Amounts : Mutate("set_translation_x", set_translation_x(tr, a),
                              Transform_default, NoVector, a)
SetTranslationY ==
    \E a \in Amounts : Mutate("set_translation_y", set_translation_y(tr, a),
                              Transform_default, NoVector, a)
SetTranslationZ ==
    \E a \in Amounts : Mutate("set_translation_z", set_translation_z(tr, a),
                              Transform_default, NoVector, a)

SetTranslation ==
    \E p \in Positions : Mutate("set_translation", set_translation(tr, p),
                                Transform_default, p, One)
AppendTranslationXyz ==
    \E p \in Positions :
        Mutate("append_translation_xyz", append_translation_xyz(tr, p[1], p[2], p[3]),
               Transform_default, p, One)
SetTranslationXyz ==
    \E p \in Positions :
        Mutate("set_translation_xyz", set_translation_xyz(tr, p[1], p[2], p[3]),
               Transform_default, p, One)

SetScale ==
    \E s \in Scales : Mutate("set_scale", set_scale(tr, s),
                             Transform_default, s, One)

SetRotation ==
    \E q \in Rotations :
        Mutate("set_rotation", set_rotation(tr, q),
               [Transform_default EXCEPT !.isometry.rotation = q], NoVector, One)

SetRotationEuler ==
    \E e \in EulerAngles :
        Mutate("set_rotation_euler", set_rotation_euler(tr, e[1], e[2], e[3]),
               Transform_default, NoVector, One)

FaceTowards ==
    \E d \in LookOffsets, up \in Ups :
        LET target == VAdd(tr.isometry.translation, VNeg(d))
        IN  /\ steps < limit
            /\ tr' = face_towards(tr, target, up)
            /\ pre' = tr
            /\ other' = Transform_default
            /\ vec' = target
            /\ dist' = One
            /\ ang' = 0
            /\ updir' = up
            /\ out' = NoMatrix
            /\ op' = "face_towards"
            /\ steps' = steps + 1
            /\ UNCHANGED <<doc, res, limit>>

-----------------------------------------------------------------------------
(* Rotating one transform *)

\* From<Vector3<Float>> for Transform: the rotation of Isometry3::new with a
\* zero axis-angle is the identity
Transform_from(translation) ==
    [Transform_default EXCEPT
        !.isometry = Isometry3_from_parts(translation, QIdentity)]

Axes == {x_axis, y_axis, z_axis}
Angles == {1, 2}

\* transforms the callers construct before rotating them
RotStarts ==
    { Transform_default,
      Transform_from(Vec(1, 2, 3)),
      Transform_new(Vec(1, -2, 3), RotY90, Vec(2, -1, 3)) }

\* three-field values a positional format hands to the deserializer; the
\* rotations have norm 5 and 0
LoadedDocs ==
    { << Field("translation", Vec(1, -2, 3)),
         Field("rotation", q),
         Field("scale", Vec(2, -1, 3)) >> :
        q \in { <<Int2F(3), Zero, Zero, Int2F(4)>>, <<Zero, Zero, Zero, Zero>> } }

InitRot ==
    /\ \/ tr \in RotStarts /\ op = "new" /\ doc = <<>>
       \/ \E d \in LoadedDocs :
            tr = visit_seq(d).value /\ op = "load" /\ doc = d
    /\ pre = tr
    /\ other = Transform_default
    /\ vec = NoVector
    /\ dist = One
    /\ ang = 0
    /\ updir = NoVector
    /\ out = NoMatrix
    /\ steps = 0
    /\ limit = MaxSteps
    /\ res = [kind |-> "none"]

\* a rotation call: the axis and the angle are remembered with the result
Rotate(name, new, axis, a) ==
    /\ steps < limit
    /\ tr' = new
    /\ pre' = tr
    /\ other' = Transform_default
    /\ vec' = axis
    /\ dist' = One
    /\ ang' = a
    /\ updir' = NoVector
    /\ out' = NoMatrix
    /\ op' = name
    /\ steps' = steps + 1
    /\ UNCHANGED <<doc, res, limit>>

PrependRotation ==
    \E axis \in Axes, a \in Angles :
        Rotate("prepend_rotation", prepend_rotation(tr, axis, a), axis, a)

AppendRotation ==
    \E axis \in Axes, a \in Angles :
        Rotate("append_rotation", append_rotation(tr, axis, a), axis, a)

PrependRotationXAxis ==
    \E a \in Angles :
        Rotate("prepend_rotation_x_axis", prepend_rotation_x_axis(tr, a), x_axis, a)

AppendRotationXAxis ==
    \E a \in Angles :
        Rotate("append_rotation_x_axis", append_rotation_x_axis(tr, a), x_axis, a)

SetRotationXAxis ==
    \E a \in Angles :
        Rotate("set_rotation_x_axis", set_rotation_x_axis(tr, a), x_axis, a)

PrependRotationYAxis ==
    \E a \in Angles :
        Rotate("prepend_rotation_y_axis", prepend_rotation_y_axis(tr, a), y_axis, a)

AppendRotationYAxis ==
    \E a \in Angles :
        Rotate("append_rotation_y_axis", append_rotation_y_axis(tr, a), y_axis, a)

SetRotationYAxis ==
    \E a \in Angles :
        Rotate("set_rotation_y_axis", set_rotation_y_axis(tr, a), y_axis, a)

PrependRotationZAxis ==
    \E a \in Angles :
        Rotate("prepend_rotation_z_axis", prepend_rotation_z_axis(tr, a), z_axis, a)

AppendRotationZAxis ==
    \E a \in Angles :
        Rotate("append_rotation_z_axis", append_rotation_z_axis(tr, a), z_axis, a)

SetRotationZAxis ==
    \E a \in Angles :
        Rotate("set_rotation_z_axis", set_rotation_z_axis(tr, a), z_axis, a)

Rotate2d ==
    \E a \in Angles :
        Rotate("rotate_2d", rotate_2d(tr, a), z_axis, a)

SetRotation2d ==
    \E a \in Angles :
        Rotate("set_rotation_2d", set_rotation_2d(tr, a), z_axis, a)

NextRot ==
    \/ PrependRotation
    \/ AppendRotation
    \/ PrependRotationXAxis
    \/ AppendRotationXAxis
    \/ SetRotationXAxis
    \/ PrependRotationYAxis
    \/ AppendRotationYAxis
    \/ SetRotationYAxis
    \/ PrependRotationZAxis
    \/ AppendRotationZAxis
    \/ SetRotationZAxis
    \/ Rotate2d
    \/ SetRotation2d
    \/ SetRotation
    \/ SetRotationEuler
    \/ FaceTowards
    \/ Concat

SpecRot == InitRot /\ [][NextRot]_vars

-----------------------------------------------------------------------------
(* Writing the cached world matrix from inside the crate, and asking
   is_finite *)

\* most writes into the cached world matrix of one transform
MaxWrites == 1

NonFinite == {NaN, PosInf, NegInf}

InitCache ==
    /\ tr \in Constructed
    /\ pre = tr
    /\ other = Transform_default
    /\ vec = NoVector
    /\ dist = One
    /\ ang = 0
    /\ updir = NoVector
    /\ out = NoMatrix
    /\ op = "new"
    /\ steps = 0
    /\ limit = MaxWrites
    /\ doc = <<>>
    /\ res = [kind |-> "none"]

\* crate code assigns the pub(crate) field global_matrix
WriteGlobalMatrix(name, m) ==
    /\ steps < limit
    /\ tr' = [tr EXCEPT !.global_matrix = m]
    /\ pre' = tr
    /\ op' = name
    /\ steps' = steps + 1
    /\ res' = [kind |-> "none"]
    /\ UNCHANGED <<other, vec, dist, ang, updir, out, doc, limit>>

\* global_matrix[(r, c)] = v
WriteCell ==
    \E r \in 1..4, c \in 1..4, v \in NonFinite :
        WriteGlobalMatrix("write_cell", [tr.global_matrix EXCEPT ![r][c] = v])

\* global_matrix.fill_row(r, v)
FillRow ==
    \E r \in 1..4, v \in NonFinite :
        WriteGlobalMatrix("fill_row",
            [tr.global_matrix EXCEPT ![r] = [c \in 1..4 |-> v]])

IsFiniteCall ==
    /\ res' = [kind |-> "bool", value |-> is_finite(tr)]
    /\ op' = "is_finite"
    /\ UNCHANGED <<tr, pre, other, vec, dist, ang, updir, out, steps, doc, limit>>

NextCache ==
    \/ WriteCell
    \/ FillRow
    \/ IsFiniteCall

SpecCache == InitCache /\ [][NextCache]_vars

-----------------------------------------------------------------------------
(* Every operation of the algebra, the three read-only calls and the
   hierarchy pass, applied to one transform *)

\* longest sequence of writes applied to one transform
MaxFrameSteps == 1

\* transforms as the callers find them: freshly built, or with the cached
\* world matrix an earlier hierarchy pass left
FrameStarts ==
    RotStarts \cup
    { [t EXCEPT !.global_matrix = MatMul(w, matrix(t))] :
        t \in {Transform_new(Vec(1, -2, 3), RotY90, Vec(2, -1, 3))},
        w \in ParentWorlds }

InitFrame ==
    /\ tr \in FrameStarts
    /\ pre = tr
    /\ other = Transform_default
    /\ vec = NoVector
    /\ dist = One
    /\ ang = 0
    /\ updir = NoVector
    /\ out = NoMatrix
    /\ op = "new"
    /\ steps = 0
    /\ limit = MaxFrameSteps
    /\ doc = <<>>
    /\ res = [kind |-> "none"]

NextFrame ==
    \/ Concat
    \/ PrependTranslation
    \/ AppendTranslation
    \/ PrependTranslationAlong
    \/ AppendTranslationAlong
    \/ MoveForward
    \/ MoveBackward
    \/ MoveRight
    \/ MoveLeft
    \/ MoveUp
    \/ MoveDown
    \/ PrependTranslationX
    \/ PrependTranslationY
    \/ PrependTranslationZ
    \/ SetTranslationX
    \/ SetTranslationY
    \/ SetTranslationZ
    \/ SetTranslation
    \/ AppendTranslationXyz
    \/ SetTranslationXyz
    \/ SetScale
    \/ PrependRotation
    \/ AppendRotation
    \/ PrependRotationXAxis
    \/ AppendRotationXAxis
    \/ SetRotationXAxis
    \/ PrependRotationYAxis
    \/ AppendRotationYAxis
    \/ SetRotationYAxis
    \/ PrependRotationZAxis
    \/ AppendRotationZAxis
    \/ SetRotationZAxis
    \/ Rotate2d
    \/ SetRotation2d
    \/ SetRotation
    \/ SetRotationEuler
    \/ FaceTowards
    \/ MatrixCall
    \/ ViewMatrixCall
    \/ IsFiniteCall
    \/ HierarchyPass

SpecFrame == InitFrame /\ [][NextFrame]_vars

-----------------------------------------------------------------------------
(* Serializing and deserializing: a transform of the program is written out,
   or a value arrives from a file, and a visitor reads it back *)

InitSerde ==
    /\ \/ tr \in Constructed \cup FrameStarts /\ doc = <<>> /\ op = "new"
       \/ tr = Transform_default /\ doc \in InputDocs /\ op = "load"
    /\ pre = tr
    /\ other = Transform_default
    /\ vec = NoVector
    /\ dist = One
    /\ ang = 0
    /\ updir = NoVector
    /\ out = NoMatrix
    /\ steps = 0
    /\ limit = MaxSteps
    /\ res = [kind |-> "none"]

SerializeCall ==
    /\ doc' = Serialize(tr)
    /\ op' = "serialize"
    /\ res' = [kind |-> "none"]
    /\ UNCHANGED <<tr, pre, other, vec, dist, ang, updir, out, steps, limit>>

\* a positional format drives the visitor through visit_seq
DeserializeSeq ==
    /\ op # "new"
    /\ res' = visit_seq(doc)
    /\ op' = "visit_seq"
    /\ UNCHANGED <<tr, pre, other, vec, dist, ang, updir, out, steps, doc, limit>>

\* a mapping format drives the visitor through visit_map
DeserializeMap ==
    /\ op # "new"
    /\ res' = visit_map(doc)
    /\ op' = "visit_map"
    /\ UNCHANGED <<tr, pre, other, vec, dist, ang, updir, out, steps, doc, limit>>

NextSerde ==
    \/ SerializeCall
    \/ DeserializeSeq
    \/ DeserializeMap

SpecSerde == InitSerde /\ [][NextSerde]_vars

-----------------------------------------------------------------------------
(* Properties of the algebra *)

Uniform(scale) == scale[1] = scale[2] /\ scale[2] = scale[3]
NonZero(scale) == \A i \in 1..3 : scale[i] # Zero
HasZero(scale) == \E i \in 1..3 : scale[i] = Zero

MatEq(a, b) == \A r \in 1..4 : \A c \in 1..4 : FEq(a[r][c], b[r][c])
VecEq(a, b) == \A i \in 1..3 : FEq(a[i], b[i])
QuatEq(a, b) == \A i \in 1..4 : FEq(coords(a)[i], coords(b)[i])
MatFinite(m) == \A r \in 1..4 : \A c \in 1..4 : Float_is_finite(m[r][c])

\* a 3x3 matrix applied to a vector
Mat3Vec(m, v) ==
    [r \in 1..3 |-> FAdd(FAdd(FMul(m[r][1], v[1]), FMul(m[r][2], v[2])),
                         FMul(m[r][3], v[3]))]

SameFields(a, b) ==
    /\ VecEq(a.isometry.translation, b.isometry.translation)
    /\ QuatEq(a.isometry.rotation, b.isometry.rotation)
    /\ VecEq(a.scale, b.scale)

\* C1: when the transform A and the argument B both have uniform scale, the
\* matrix of A after A.concat(B) equals matrix(A before) * matrix(B).
C1_ConcatUniformIsMatrixProduct ==
    (op = "concat" /\ Uniform(pre.scale) /\ Uniform(other.scale)) =>
        MatEq(matrix(tr), MatMul(matrix(pre), matrix(other)))

C1_Witness ==
    /\ op = "concat"
    /\ Uniform(pre.scale) /\ pre.scale # Vec(1, 1, 1)
    /\ Uniform(other.scale) /\ other.scale # Vec(1, 1, 1)
    /\ pre.isometry.rotation = RotDiag120
    /\ other.isometry.rotation = RotY90
    /\ other.isometry.translation # Vec(0, 0, 0)
    /\ MatEq(matrix(tr), MatMul(matrix(pre), matrix(other)))

\* C2 as stated: for any parent P and any child C, with no restriction on
\* the scale, the matrix of concat(P, C) equals matrix(P) * matrix(C).
C2_ConcatAlwaysIsMatrixProduct ==
    op = "concat" => MatEq(matrix(tr), MatMul(matrix(pre), matrix(other)))

\* C2 amended: for any parent P with uniform scale and any child C (any scale,
\* any rotation), the matrix of concat(P, C) equals matrix(P) * matrix(C);
\* with a parent of non-uniform scale the two derivations can differ.
C2_ConcatUniformParentIsMatrixProduct ==
    (op = "concat" /\ Uniform(pre.scale)) =>
        MatEq(matrix(tr), MatMul(matrix(pre), matrix(other)))

\* the second edge of a chain: a uniform parent that is itself a concat
\* result, and a child of non-uniform scale
C2_Witness ==
    /\ op = "concat"
    /\ steps = 2
    /\ Uniform(pre.scale) /\ pre.scale # Vec(1, 1, 1)
    /\ pre.isometry.rotation # QIdentity
    /\ ~Uniform(other.scale)
    /\ other.isometry.rotation # QIdentity
    /\ MatEq(matrix(tr), MatMul(matrix(pre), matrix(other)))

\* C3: for every transform whose scale components are all non-zero,
\* view_matrix() is the two-sided inverse of matrix().
C3_ViewMatrixIsInverse ==
    (op = "view_matrix" /\ NonZero(tr.scale)) =>
        /\ MatEq(MatMul(out, matrix(tr)), Matrix4_identity)
        /\ MatEq(MatMul(matrix(tr), out), Matrix4_identity)

C3_Witness ==
    /\ op = "view_matrix"
    /\ tr.scale = Vec(2, -1, 3)
    /\ tr.isometry.rotation = RotDiag120
    /\ tr.isometry.translation # Vec(0, 0, 0)
    /\ MatEq(MatMul(out, matrix(tr)), Matrix4_identity)

\* C8 as stated: with a zero scale component view_matrix() returns a matrix
\* with non-finite entries, and is_finite() returns false once the hierarchy
\* pass has written the cached world matrix.
C8_IsFiniteDetectsZeroScale ==
    /\ (op = "view_matrix" /\ HasZero(tr.scale)) => ~MatFinite(out)
    /\ (op = "hierarchy" /\ HasZero(tr.scale)) => ~is_finite(tr)

\* C8 amended: with a zero scale component view_matrix() returns a matrix
\* with non-finite entries, but is_finite() does not detect it: matrix() of
\* such a transform is finite, so once the hierarchy pass has written the
\* cached world matrix from a finite parent world matrix, is_finite() is true.
C8_ZeroScaleViewNotFiniteWorldFinite ==
    /\ (op = "view_matrix" /\ HasZero(tr.scale)) => ~MatFinite(out)
    /\ (op = "hierarchy" /\ HasZero(tr.scale)) =>
            /\ MatFinite(matrix(tr))
            /\ ~MatFinite(view_matrix(tr))
            /\ is_finite(tr)

C8_Witness ==
    /\ op = "hierarchy"
    /\ HasZero(tr.scale)
    /\ tr.global_matrix # Matrix4_identity
    /\ ~MatFinite(view_matrix(tr))
    /\ is_finite(tr)

\* C9: matrix(default()) is the identity, and concat(default(), X) and
\* concat(X, default()) both leave X's translation, rotation, scale and matrix.
C9_IdentityLaws ==
    /\ MatEq(matrix(Transform_default), Matrix4_identity)
    /\ (op = "concat" /\ pre = Transform_default) =>
            SameFields(tr, other) /\ MatEq(matrix(tr), matrix(other))
    /\ (op = "concat" /\ other = Transform_default) =>
            SameFields(tr, pre) /\ MatEq(matrix(tr), matrix(pre))

C9_Witness ==
    /\ op = "concat"
    /\ pre = Transform_default
    /\ ~Uniform(other.scale)
    /\ other.isometry.rotation # QIdentity
    /\ other.isometry.translation # Vec(0, 0, 0)
    /\ SameFields(tr, other)

\* C10: prepend_translation(v) and prepend_translation_along set the
\* translation to t + v whatever the rotation R; append_translation(v) and
\* append_translation_along set it to t + R.v; the two agree when R is the
\* identity, and after a quarter turn about y a move of 1 along -z gives
\* (-1, 0, 0) when appended and (0, 0, -1) when prepended.
C10_PrependAppendTranslation ==
    LET t == pre.isometry.translation
        R == to_rotation_matrix(pre.isometry.rotation)
        kept == /\ tr.isometry.rotation = pre.isometry.rotation
                /\ tr.scale = pre.scale
                /\ tr.global_matrix = pre.global_matrix
    IN  /\ op = "prepend_translation" =>
                kept /\ VecEq(tr.isometry.translation, VAdd(t, vec))
        /\ op = "append_translation" =>
                /\ kept
                /\ VecEq(tr.isometry.translation, VAdd(t, Mat3Vec(R, vec)))
                /\ pre.isometry.rotation = QIdentity =>
                        VecEq(tr.isometry.translation, VAdd(t, vec))
        /\ op = "prepend_translation_along" =>
                /\ kept
                /\ VecEq(tr.isometry.translation, VAdd(t, VScale(vec, dist)))
                /\ (vec = Vec(0, 0, -1) /\ dist = One) =>
                        VecEq(tr.isometry.translation, VAdd(t, Vec(0, 0, -1)))
        /\ op = "append_translation_along" =>
                /\ kept
                /\ VecEq(tr.isometry.translation,
                         VAdd(t, VScale(Mat3Vec(R, vec), dist)))
                /\ pre.isometry.rotation = QIdentity =>
                        VecEq(tr.isometry.translation, VAdd(t, VScale(vec, dist)))
                /\ (pre.isometry.rotation = RotY90 /\ vec = Vec(0, 0, -1)
                        /\ dist = One) =>
                        VecEq(tr.isometry.translation, VAdd(t, Vec(-1, 0, 0)))

C10_Witness ==
    /\ op = "append_translation_along"
    /\ pre.isometry.rotation = RotY90
    /\ vec = Vec(0, 0, -1)
    /\ dist = One
    /\ VecEq(tr.isometry.translation,
             VAdd(pre.isometry.translation, Vec(-1, 0, 0)))
    /\ ~VecEq(tr.isometry.translation,
              prepend_translation_along(pre, vec, dist).isometry.translation)

-----------------------------------------------------------------------------
(* Properties of the serialized form *)

HasKey(d, key) == \E n \in 1..Len(d) : d[n].key = key
HasDuplicate(d) == \E m, n \in 1..Len(d) : m < n /\ d[m].key = d[n].key
ValueOf(d, key) == d[CHOOSE n \in 1..Len(d) : d[n].key = key].value

\* the key whose second occurrence comes first
FirstDuplicate(d) ==
    LET n == CHOOSE j \in 1..Len(d) :
                /\ \E i \in 1..(j - 1) : d[i].key = d[j].key
                /\ ~HasDuplicate(SubSeq(d, 1, j - 1))
    IN  d[n].key

\* a positional value with its three elements of the right lengths
WellFormedSeq(d) ==
    /\ Len(d) >= 3
    /\ Len(d[1].value) = 3 /\ Len(d[2].value) = 4 /\ Len(d[3].value) = 3

Deserialized == op \in {"visit_seq", "visit_map"}

\* C4 as stated: a field absent from a mapping takes its default, translation
\* (0,0,0), rotation the identity (x,y,z,w) = (0,0,0,1), scale (1,1,1), and the
\* empty mapping deserializes to Transform::default().
C4_AbsentFieldsTakeDefaults ==
    (op = "visit_map" /\ res.kind = "ok") =>
        /\ ~HasKey(doc, "translation") =>
                res.value.isometry.translation = Vec(0, 0, 0)
        /\ ~HasKey(doc, "rotation") =>
                coords(res.value.isometry.rotation) = <<Zero, Zero, Zero, One>>
        /\ ~HasKey(doc, "scale") => res.value.scale = Vec(1, 1, 1)
        /\ doc = <<>> => res.value = Transform_default

\* C5: what Serialize writes is read back unchanged by both visitors: the same
\* translation and scale, the same rotation up to sign; the rotation is
\* written in (x, y, z, w) order.
C5_SerializeRoundTrips ==
    LET q == tr.isometry.rotation
    IN  /\ op = "serialize" =>
            /\ Len(doc) = 3
            /\ doc[1] = Field("translation", tr.isometry.translation)
            /\ doc[2] = Field("rotation", <<q.i, q.j, q.k, q.w>>)
            /\ doc[3] = Field("scale", tr.scale)
        /\ (Deserialized /\ doc = Serialize(tr)) =>
            /\ res.kind = "ok"
            /\ VecEq(res.value.isometry.translation, tr.isometry.translation)
            /\ VecEq(res.value.scale, tr.scale)
            /\ \/ QuatEq(res.value.isometry.rotation, q)
               \/ QuatEq(res.value.isometry.rotation,
                         Quaternion_new(FNeg(q.w), FNeg(q.i), FNeg(q.j), FNeg(q.k)))

C5_Witness ==
    /\ op = "visit_seq"
    /\ doc = Serialize(tr)
    /\ tr.isometry.rotation = RotY90
    /\ tr.scale = Vec(2, -1, 3)
    /\ res.kind = "ok"
    /\ QuatEq(res.value.isometry.rotation, RotY90)

\* C6: a mapping that repeats a field fails with a duplicate-field error, and
\* a positional sequence of fewer than three elements fails with an
\* invalid-length error; neither produces a transform.
C6_MalformedInputRejected ==
    /\ (op = "visit_map" /\ HasDuplicate(doc)) =>
            res = duplicate_field(FirstDuplicate(doc))
    /\ (op = "visit_seq" /\ Len(doc) < 3) =>
            /\ res.kind = "err"
            /\ (\A n \in 1..Len(doc) : Len(doc[n].value) = IF n = 2 THEN 4 ELSE 3)
                    => res = invalid_length(Len(doc))

C6_Witness ==
    /\ op = "visit_map"
    /\ Len(doc) = 3
    /\ doc[1].key = "rotation" /\ doc[2].key = "scale" /\ doc[3].key = "rotation"
    /\ res = duplicate_field("rotation")

\* the rotation quadruple a value supplies to the visitor that read it
RotationSupplied ==
    \/ op = "visit_seq" /\ WellFormedSeq(doc)
    \/ op = "visit_map" /\ ~HasDuplicate(doc) /\ HasKey(doc, "rotation")

SuppliedRotation ==
    LET r == IF op = "visit_seq" THEN doc[2].value ELSE ValueOf(doc, "rotation")
    IN  Quaternion_new(r[4], r[1], r[2], r[3])

\* q is p divided by the norm of p
IsNormalized(q, p) ==
    LET n == FSqrt(QNormSquared(p))
    IN  /\ FEq(FMul(q.w, n), p.w) /\ FEq(FMul(q.i, n), p.i)
        /\ FEq(FMul(q.j, n), p.j) /\ FEq(FMul(q.k, n), p.k)

\* C7 as stated: for every rotation quadruple supplied, deserialization
\* succeeds and stores the quadruple divided by its norm, a unit quaternion.
C7_EveryRotationNormalized ==
    RotationSupplied =>
        /\ res.kind = "ok"
        /\ IsNormalized(res.value.isometry.rotation, SuppliedRotation)
        /\ FEq(QNormSquared(res.value.isometry.rotation), One)

\* C7 amended: deserialization never rejects a rotation quadruple because of
\* its norm; for a quadruple of non-zero norm the stored rotation is the
\* quadruple divided by its norm, a unit quaternion; for the zero quadruple
\* the division is 0 / 0 and the stored rotation has four NaN components.
C7_NonZeroRotationNormalized ==
    RotationSupplied =>
        /\ res.kind = "ok"
        /\ QNormSquared(SuppliedRotation) # Zero =>
                /\ IsNormalized(res.value.isometry.rotation, SuppliedRotation)
                /\ FEq(QNormSquared(res.value.isometry.rotation), One)
        /\ QNormSquared(SuppliedRotation) = Zero =>
                coords(res.value.isometry.rotation) = <<NaN, NaN, NaN, NaN>>

C7_Witness ==
    /\ op = "visit_map"
    /\ RotationSupplied
    /\ coords(SuppliedRotation) = <<Int2F(1), Int2F(2), Int2F(2), Int2F(4)>>
    /\ res.kind = "ok"
    /\ coords(res.value.isometry.rotation) =
            <<Rat(1, 5), Rat(2, 5), Rat(2, 5), Rat(4, 5)>>

-----------------------------------------------------------------------------
(* Properties of the rotation operations *)

Commute(a, b) == QuatEq(QMul(a, b), QMul(b, a))

\* the two fields hold the very same values (a NaN included)
SameTranslationAndScale(a, b) ==
    /\ a.isometry.translation = b.isometry.translation
    /\ a.scale = b.scale

\* C11: with delta the quaternion of (axis, angle) and q the rotation before
\* the call, prepend_rotation leaves the rotation delta * q and append_rotation
\* leaves q * delta; both leave translation and scale as they were, and the
\* two results differ whenever delta and q do not commute.
C11_PrependAppendRotation ==
    LET q == pre.isometry.rotation
        delta == from_axis_angle(vec, ang)
    IN  /\ op = "prepend_rotation" =>
            /\ tr.isometry.rotation = QMul(delta, q)
            /\ SameTranslationAndScale(tr, pre)
            /\ ~Commute(delta, q) =>
                    ~QuatEq(tr.isometry.rotation,
                            append_rotation(pre, vec, ang).isometry.rotation)
        /\ op = "append_rotation" =>
            /\ tr.isometry.rotation = QMul(q, delta)
            /\ SameTranslationAndScale(tr, pre)
            /\ ~Commute(delta, q) =>
                    ~QuatEq(tr.isometry.rotation,
                            prepend_rotation(pre, vec, ang).isometry.rotation)

\* a quarter turn about x prepended to a rotation about y
C11_Witness ==
    /\ op = "prepend_rotation"
    /\ vec = x_axis
    /\ pre.isometry.rotation = RotY90
    /\ ~Commute(from_axis_angle(vec, ang), pre.isometry.rotation)
    /\ tr.isometry.rotation # append_rotation(pre, vec, ang).isometry.rotation
    /\ pre.scale = Vec(2, -1, 3)

-----------------------------------------------------------------------------
(* Properties of is_finite *)

CellsOf(m) == {m[r][c] : r \in 1..4, c \in 1..4}

-----------------------------------------------------------------------------
(* The cached world matrix *)

ReadOnlyCalls == {"matrix", "view_matrix", "is_finite"}

\* C13: no operation of the algebra (translation movers and setters, rotation
\* prepend / append / setters, set_scale, face_towards, concat) and no call of
\* matrix(), view_matrix() or is_finite() changes the cached world matrix;
\* only the hierarchy pass writes it, and the three read-only calls change no
\* field at all.
C13_CachedMatrixFrame ==
    [][ /\ op' # "hierarchy" => tr'.global_matrix = tr.global_matrix
        /\ op' \in ReadOnlyCalls => tr' = tr ]_vars

\* a transform whose cached matrix the hierarchy pass wrote is concatenated
\* with a child: its fields change, its cached matrix does not
C13_Witness ==
    /\ op = "concat"
    /\ pre.global_matrix # Matrix4_identity
    /\ tr.global_matrix = pre.global_matrix
    /\ tr.isometry # pre.isometry
    /\ tr.global_matrix # matrix(tr)

-----------------------------------------------------------------------------
(* The axis wrappers *)

QNeg(q) == Quaternion_new(FNeg(q.w), FNeg(q.i), FNeg(q.j), FNeg(q.k))

\* q and -q turn every vector the same way
SameRotation(a, b) == QuatEq(a, b) \/ QuatEq(a, QNeg(b))

QFinite(q) == \A i \in 1..4 : Float_is_finite(coords(q)[i])

\* the x and y wrappers turn about +x and +y, and from the identity they
\* agree with their setters
XYWrappersAgree ==
    /\ (op = "prepend_rotation_x_axis" /\ QFinite(pre.isometry.rotation)) =>
            /\ SameRotation(tr.isometry.rotation,
                            prepend_rotation(pre, x_axis, ang).isometry.rotation)
            /\ pre.isometry.rotation = QIdentity =>
                    SameRotation(tr.isometry.rotation,
                                 set_rotation_x_axis(pre, ang).isometry.rotation)
    /\ (op = "append_rotation_y_axis" /\ QFinite(pre.isometry.rotation)) =>
            /\ SameRotation(tr.isometry.rotation,
                            append_rotation(pre, y_axis, ang).isometry.rotation)
            /\ pre.isometry.rotation = QIdentity =>
                    SameRotation(tr.isometry.rotation,
                                 set_rotation_y_axis(pre, ang).isometry.rotation)

\* C14: the z-axis wrappers turn about +z, in the same sense as the x and y
\* wrappers and the z setter: prepend_rotation_z_axis(a) is
\* prepend_rotation(z_axis, a), append_rotation_z_axis(a) is
\* append_rotation(z_axis, a), and starting from the identity rotation
\* prepend_rotation_z_axis(a), append_rotation_z_axis(a) and rotate_2d(a) each
\* leave the rotation that set_rotation_z_axis(a) and set_rotation_2d(a) leave.
C14_ZAxisWrappersTurnAboutZ ==
    /\ (op = "prepend_rotation_z_axis" /\ QFinite(pre.isometry.rotation)) =>
            SameRotation(tr.isometry.rotation,
                         prepend_rotation(pre, z_axis, ang).isometry.rotation)
    /\ (op = "append_rotation_z_axis" /\ QFinite(pre.isometry.rotation)) =>
            SameRotation(tr.isometry.rotation,
                         append_rotation(pre, z_axis, ang).isometry.rotation)
    /\ (/\ op \in {"prepend_rotation_z_axis", "append_rotation_z_axis", "rotate_2d"}
        /\ pre.isometry.rotation = QIdentity) =>
            /\ SameRotation(tr.isometry.rotation,
                            set_rotation_z_axis(pre, ang).isometry.rotation)
            /\ SameRotation(tr.isometry.rotation,
                            set_rotation_2d(pre, ang).isometry.rotation)

-----------------------------------------------------------------------------
(* The norm of the rotation *)

IsUnit(q) == FEq(QNormSquared(q), One)

\* the direction handed to UnitQuaternion::face_towards and the up vector span
\* a plane: both are finite, the direction is not zero and not parallel to up
SpansPlane(dir, up) ==
    LET c == cross(up, dir)
    IN  /\ \A i \in 1..3 : Float_is_finite(c[i])
        /\ \E i \in 1..3 : c[i] # Zero

\* the rotation quadruple of a three-field serialized value
DocRotation(d) == d[2].value

\* C15 as stated: the rotation has unit norm in every reachable state.
C15_RotationAlwaysUnit == IsUnit(tr.isometry.rotation)

\* C15, amended: a transform built by new, default or from, or deserialized
\* from a value whose rotation quadruple is not all zero, has a unit rotation;
\* and every rotation method, set_rotation with a unit argument, concat with a
\* child of unit rotation, and face_towards whose direction and up vector span
\* a plane, applied to a transform of unit rotation, leaves a unit rotation.
C15_UnitUnlessDegenerate ==
    /\ op = "new" => IsUnit(tr.isometry.rotation)
    /\ (op = "load" /\ \E i \in 1..4 : DocRotation(doc)[i] # Zero) =>
            IsUnit(tr.isometry.rotation)
    /\ (/\ op \notin {"new", "load"}
        /\ IsUnit(pre.isometry.rotation)
        /\ IsUnit(other.isometry.rotation)
        /\ op = "face_towards" =>
                SpansPlane(VAdd(pre.isometry.translation, VNeg(vec)), updir)) =>
            IsUnit(tr.isometry.rotation)

\* the doc example of face_towards: looking along +y with up along +z leaves
\* a quarter turn about x
C15_Witness ==
    /\ op = "face_towards"
    /\ pre.isometry.rotation = QIdentity
    /\ SpansPlane(VAdd(pre.isometry.translation, VNeg(vec)), updir)
    /\ tr.isometry.rotation = from_axis_angle(x_axis, 1)
    /\ IsUnit(tr.isometry.rotation)

-----------------------------------------------------------------------------
(* The cached world matrix and the serialized form *)

\* the derived PartialEq of Transform: every field, the cached matrix too
TransformEq(a, b) == SameFields(a, b) /\ MatEq(a.global_matrix, b.global_matrix)

\* C16: the cached world matrix takes no part in serialization.  Serialize
\* writes the same value whatever the cached matrix holds; every transform a
\* visitor returns has the identity as its cached matrix; so T and
\* deserialize(serialize(T)) are equal under the derived == only when T's
\* cached matrix is the identity.
C16_CachedMatrixNotSerialized ==
    /\ op = "serialize" =>
            \A m \in ParentWorlds \cup {Matrix4_identity} :
                Serialize([tr EXCEPT !.global_matrix = m]) = doc
    /\ (Deserialized /\ res.kind = "ok") =>
            res.value.global_matrix = Matrix4_identity
    /\ (Deserialized /\ res.kind = "ok" /\ doc = Serialize(tr)) =>
            (TransformEq(res.value, tr) => tr.global_matrix = Matrix4_identity)

\* a transform whose cached matrix the hierarchy pass wrote comes back with
\* its three fields intact and the identity as cached matrix: not equal
C16_Witness ==
    /\ op = "visit_seq"
    /\ res.kind = "ok"
    /\ doc = Serialize(tr)
    /\ tr.global_matrix # Matrix4_identity
    /\ SameFields(res.value, tr)
    /\ res.value.global_matrix = Matrix4_identity
    /\ ~TransformEq(res.value, tr)

====
